---- MODULE Spec2Model ----
(***************************************************************************)
(* Model of src/worker.ts: the Worker's four handlers (email, scheduled,   *)
(* fetch, queue) and generateSummary, together with the resources they     *)
(* act on: the Ingestion Queue (env.QUEUE), the Message Store (env.DB,     *)
(* table messages), the Vector Index (env.VECTORIZE_INDEX), the inference  *)
(* binding (env.AI) and the outbound mail API.                             *)
(*                                                                         *)
(* The queue handler is modelled step by step (one action per awaited      *)
(* call), so that invocations interleave; the other handlers touch shared  *)
(* state at one point only and are one action each.  Every external call   *)
(* may succeed or throw; the store's insert may also report                *)
(* success = false.  The handler has no try/catch and never calls          *)
(* message.ack()/retry(): a normal return acknowledges the whole batch, a  *)
(* throw leaves the whole batch on the queue for redelivery.               *)
(***************************************************************************)
EXTENDS Integers, Sequences, FiniteSets, TLC

\* ------------------------------------------------------------------ bounds
MaxMsgs == 2        \* messages ever put on the queue
MaxBatch == 2       \* messages in one delivered batch
MaxDeliveries == 2  \* batch deliveries (queue handler invocations)
MaxTime == 2        \* clock ticks

Consumers == {"q1", "q2"}   \* concurrently running queue handler invocations

\* -------------------------------------------------------------- JS values
Undefined == [tag |-> "undefined", val |-> ""]
Str(s) == [tag |-> "string", val |-> s]
IsString(v) == v.tag = "string"

\* JS truthiness of a string-or-undefined value, and the || operator.
Truthy(v) == IsString(v) /\ v.val # ""
OrOp(a, b) == IF Truthy(a) THEN a ELSE b

\* String(n) for a non-negative integer: its decimal digits.
Digit(d) ==
    CASE d = 0 -> "0" [] d = 1 -> "1" [] d = 2 -> "2" [] d = 3 -> "3"
      [] d = 4 -> "4" [] d = 5 -> "5" [] d = 6 -> "6" [] d = 7 -> "7"
      [] d = 8 -> "8" [] d = 9 -> "9"

RECURSIVE String(_)
String(n) == IF n < 10 THEN Digit(n) ELSE String(n \div 10) \o Digit(n % 10)

\* ------------------------------------------------------------------- JSON
\* A JSON text is either malformed or an object literal: the sequence of its
\* members <<key, value>>.  An object is the sequence of its properties.
Malformed == [wf |-> FALSE, members |-> <<>>]

\* JSON.stringify of an object: properties whose value is undefined are
\* omitted from the text.
JSONstringify(obj) ==
    [wf |-> TRUE, members |-> SelectSeq(obj, LAMBDA kv : kv[2] # Undefined)]

JSONparseThrows(text) == ~text.wf
JSONparse(text) == text.members

\* Property read obj.key: undefined when the object has no such property.
Get(obj, key) ==
    IF \E i \in 1..Len(obj) : obj[i][1] = key
    THEN obj[CHOOSE i \in 1..Len(obj) : obj[i][1] = key][2]
    ELSE Undefined

\* ------------------------------------------------------------- timestamps
\* One clock tick is 12 hours; the clock's 0 is 2024-01-02T00:00:00Z.  A text
\* is the sequence of its character codes.
DayTicks == 2   \* 24 * 60 * 60 * 1000 ms, in clock ticks

Code(d) == 48 + d                        \* the character of a digit
TwoDigits(n) == <<Code(n \div 10), Code(n % 10)>>
DayOfMonth(t) == 2 + (t \div DayTicks)
HourOfDay(t) == 12 * (t % DayTicks)

\* "2024-01-DD" and "HH:00:00"
DateText(t) == <<50, 48, 50, 52, 45, 48, 49, 45>> \o TwoDigits(DayOfMonth(t))
TimeText(t) == TwoDigits(HourOfDay(t)) \o <<58, 48, 48, 58, 48, 48>>

\* Date.prototype.toISOString(): "YYYY-MM-DDTHH:mm:ss.sssZ"
ISOString(t) == DateText(t) \o <<84>> \o TimeText(t) \o <<46, 48, 48, 48, 90>>

\* The store's default for created_at, the insertion time as the store
\* writes it: "YYYY-MM-DD HH:MM:SS"
CurrentTimestamp(t) == DateText(t) \o <<32>> \o TimeText(t)

\* The instant a stored created_at text stands for.
InstantOf(ts) ==
    CHOOSE t \in (0 - DayTicks)..(MaxTime + DayTicks) : CurrentTimestamp(t) = ts

\* a < b as texts are compared: by the first character that differs, a
\* proper prefix being less.
TextLess(a, b) ==
    \/ \E i \in 1..Len(a) : /\ i <= Len(b)
                            /\ a[i] < b[i]
                            /\ \A j \in 1..(i - 1) : a[j] = b[j]
    \/ Len(a) < Len(b) /\ \A j \in 1..Len(a) : a[j] = b[j]

\* ------------------------------------------------------------------ state
VARIABLES
    queue,       \* Ingestion Queue: the messages sent and not yet acknowledged
    nextMid,     \* identity the queue gives the next message sent
    db,          \* Message Store: the rows of table messages, in id order
    index,       \* Vector Index: id string -> vector
    now,         \* wall clock
    pc,          \* per queue handler invocation: where it stands
    batch,       \* per invocation: batch.messages
    pos,         \* per invocation: the loop's position in batch.messages
    rowsBefore,  \* per invocation: the number of rows when it was invoked
    body,        \* per invocation: the local body of the current message
    results,     \* per invocation: the local results of the current message
    id,          \* per invocation: the local id of the current message
    values,      \* per invocation: the local values of the current message
    calls,       \* per invocation: the external calls it has made so far
    unindexed,   \* rows whose embedding or upsert call threw
    deliveries,  \* batches delivered so far
    resp         \* what the last email, scheduled or fetch invocation did

vars == <<queue, nextMid, db, index, now, pc, batch, pos, rowsBefore, body,
          results, id, values, calls, unindexed, deliveries, resp>>

local == <<pc, batch, pos, rowsBefore, body, results, id, values, calls>>
stores == <<db, index>>

NoVector == <<>>
NoResp == [handler |-> "none", result |-> "none", failed |-> "none",
           input |-> <<>>, completion |-> <<>>, output |-> <<>>]

Init ==
    /\ queue = {}
    /\ nextMid = 1
    /\ db = <<>>
    /\ index = <<>>
    /\ now = 0
    /\ pc = [p \in Consumers |-> "idle"]
    /\ batch = [p \in Consumers |-> <<>>]
    /\ pos = [p \in Consumers |-> 0]
    /\ rowsBefore = [p \in Consumers |-> 0]
    /\ body = [p \in Consumers |-> Undefined]
    /\ results = [p \in Consumers |-> <<>>]
    /\ id = [p \in Consumers |-> ""]
    /\ values = [p \in Consumers |-> NoVector]
    /\ calls = [p \in Consumers |-> <<>>]
    /\ unindexed = {}
    /\ deliveries = 0
    /\ resp = NoResp

\* The handlers email, scheduled and fetch are one step each; resp holds what
\* the invocation did until it is handed to its caller, which is the step
\* that follows it.
Ready == resp = NoResp

Respond ==
    /\ ~Ready
    /\ resp' = NoResp
    /\ UNCHANGED <<queue, nextMid, stores, now, local, unindexed, deliveries>>

\* ---------------------------------------------------------- email handler
\* What PostalMime.parse yields for the mails considered: text and html are
\* each a string or undefined.
EmailTexts == {Undefined, Str(""), Str("a")}
EmailHtmls == {Undefined, Str("b")}

\* const emailBody = parsedEmail.text || parsedEmail.html
EmailBody(text, html) == OrOp(text, html)

\* JSON.stringify({ type: 'email', body: emailBody })
EmailPayload(text, html) ==
    JSONstringify(<< <<"type", Str("email")>>, <<"body", EmailBody(text, html)>> >>)

\* A handler that does not wait for the send, and so never sees it fail.
EmailResultSendUnawaited(fail) == IF fail \in {"none", "send"} THEN "ok" ELSE "threw"

\* How the invocation ends: every call is awaited and nothing is caught.
EmailResult(fail) == IF fail = "none" THEN "ok" ELSE "threw"

\* email(message, env, ctx).  fail is the awaited call that throws, if any:
\* Parser.parse, env.QUEUE.send.
Email(text, html, fail) ==
    /\ Ready
    /\ nextMid <= MaxMsgs
    /\ IF fail = "none"
       THEN /\ queue' = queue \cup {[mid |-> nextMid, payload |-> EmailPayload(text, html)]}
            /\ nextMid' = nextMid + 1
       ELSE UNCHANGED <<queue, nextMid>>
    /\ resp' = [handler |-> "email",
                result |-> EmailResult(fail),
                failed |-> fail,
                input |-> <<text, html>>,
                completion |-> <<>>,
                output |-> IF fail = "none"
                           THEN <<[mid |-> nextMid, payload |-> EmailPayload(text, html)]>>
                           ELSE <<>>]
    /\ UNCHANGED <<stores, now, local, unindexed, deliveries>>

\* Another producer of the same queue sends a payload that is not an email
\* message: a JSON object of another type, or a text that is not JSON.
OtherPayloads ==
    {JSONstringify(<< <<"type", Str("other")>>, <<"body", Str("a")>> >>), Malformed}

OtherSend(payload) ==
    /\ Ready
    /\ nextMid <= MaxMsgs
    /\ queue' = queue \cup {[mid |-> nextMid, payload |-> payload]}
    /\ nextMid' = nextMid + 1
    /\ UNCHANGED <<stores, now, local, unindexed, deliveries, resp>>

\* The clock advances.
Tick ==
    /\ Ready
    /\ now < MaxTime
    /\ now' = now + 1
    /\ UNCHANGED <<queue, nextMid, stores, local, unindexed, deliveries, resp>>

\* ---------------------------------------------------------- queue handler
Range(f) == {f[i] : i \in DOMAIN f}

\* The batches the queue may deliver: up to MaxBatch distinct unacknowledged
\* messages, in the order they were sent.  Delivery is at least once: a
\* message stays on the queue until it is acknowledged, so it may be
\* delivered again meanwhile.
Batches(q) ==
    {b \in UNION {[1..n -> q] : n \in 1..MaxBatch} :
        \A i, j \in DOMAIN b : i < j => b[i].mid < b[j].mid}

\* The messages acknowledged so far: sent, and no longer on the queue.
Acked == {m \in 1..(nextMid - 1) : \A q \in queue : q.mid # m}

\* One external call (or the payload's deserialization) of an invocation.
Call(op, i, text, key, vec, res) ==
    [op |-> op, pos |-> i, text |-> text, key |-> key, vec |-> vec, res |-> res]

Logged(p, c) == calls' = [calls EXCEPT ![p] = Append(@, c)]

ClearLocals(p) ==
    /\ body' = [body EXCEPT ![p] = Undefined]
    /\ results' = [results EXCEPT ![p] = <<>>]
    /\ id' = [id EXCEPT ![p] = ""]
    /\ values' = [values EXCEPT ![p] = NoVector]

\* queue(batch, env, ctx) is invoked with a delivered batch.
Deliver(p, b) ==
    /\ Ready
    /\ pc[p] \in {"idle", "returned", "threw"}
    /\ deliveries < MaxDeliveries
    /\ deliveries' = deliveries + 1
    /\ batch' = [batch EXCEPT ![p] = b]
    /\ pos' = [pos EXCEPT ![p] = 1]
    /\ rowsBefore' = [rowsBefore EXCEPT ![p] = Len(db)]
    /\ pc' = [pc EXCEPT ![p] = "parse"]
    /\ calls' = [calls EXCEPT ![p] = <<>>]
    /\ ClearLocals(p)
    /\ UNCHANGED <<queue, nextMid, stores, now, unindexed, resp>>

\* `continue`, or the end of the loop body: on to the next message; after the
\* last one the handler returns and the whole batch is acknowledged.
Continue(p) ==
    /\ ClearLocals(p)
    /\ IF pos[p] < Len(batch[p])
       THEN /\ pos' = [pos EXCEPT ![p] = @ + 1]
            /\ pc' = [pc EXCEPT ![p] = "parse"]
            /\ UNCHANGED queue
       ELSE /\ pos' = pos
            /\ pc' = [pc EXCEPT ![p] = "returned"]
            /\ queue' = queue \ Range(batch[p])

\* An exception leaves the loop and the handler: nothing catches it.  No
\* message of the batch is acknowledged; all stay on the queue.
Throw(p) ==
    /\ pc' = [pc EXCEPT ![p] = "threw"]
    /\ UNCHANGED <<pos, body, results, id, values, queue>>

\* JSON.parse(message.body) throws on a text that is not JSON.
ParseThrows(p) ==
    /\ Logged(p, Call("parse", pos[p], "", "", NoVector, "throw"))
    /\ Throw(p)

\* A handler that treats an unknown type as fatal.
ParseSkipFatal(p) ==
    /\ Logged(p, Call("parse", pos[p], "", "", NoVector, "skip"))
    /\ Throw(p)

\* if (type !== 'email') { console.log(...); continue }
ParseSkip(p) ==
    /\ Logged(p, Call("parse", pos[p], "", "", NoVector, "skip"))
    /\ Continue(p)

\* const { body, type } = JSON.parse(message.body), type being 'email'.
ParseEmail(p, obj) ==
    /\ Logged(p, Call("parse", pos[p], "", "", NoVector, "ok"))
    /\ body' = [body EXCEPT ![p] = Get(obj, "body")]
    /\ pc' = [pc EXCEPT ![p] = "insert"]
    /\ UNCHANGED <<pos, results, id, values, queue>>

\* The head of the loop body, lines 109-113.
Parse(p) ==
    /\ Ready
    /\ pc[p] = "parse"
    /\ LET text == batch[p][pos[p]].payload
       IN IF JSONparseThrows(text) THEN ParseThrows(p)
          ELSE IF Get(JSONparse(text), "type") # Str("email") THEN ParseSkip(p)
          ELSE ParseEmail(p, JSONparse(text))
    /\ UNCHANGED <<nextMid, stores, now, batch, rowsBefore, unindexed, deliveries, resp>>

\* The outcomes of INSERT ... RETURNING id with body bound: the store rejects
\* an undefined bind parameter with an exception; otherwise the statement
\* runs (ok), reports success = false (fail) or throws.
InsertOutcomes(b) == IF IsString(b) THEN {"ok", "fail", "throw"} ELSE {"throw"}

\* A store that answers with the row it already holds for a text, if any.
ExistingRow(text) ==
    IF \E k \in 1..Len(db) : db[k].message = text
    THEN db[CHOOSE k \in 1..Len(db) : db[k].message = text]
    ELSE [id |-> Len(db) + 1, message |-> text, created_at |-> CurrentTimestamp(now)]

\* The row the store creates: the next id, the text, the insertion time.
NewRow(text) ==
    [id |-> Len(db) + 1, message |-> text, created_at |-> CurrentTimestamp(now)]

\* A store that rewrites the text of the rows it holds when it adds one.
InsertedTouching(rows, row) ==
    Append([k \in 1..Len(rows) |-> [rows[k] EXCEPT !.message = row.message]], row)

\* INSERT INTO messages: the table with the row added.
Inserted(rows, row) == Append(rows, row)

\* A store whose RETURNING id is the same for every row.
ReturningFirst(row) == <<[id |-> 1]>>

\* What RETURNING id yields for the row created.
Returning(row) == <<[id |-> row.id]>>

\* A handler that keys by the id after the one the store returned.
IdOfNext(res) == String(res[1].id + 1)

\* const id = String(results[0].id)
IdOf(res) == String(res[1].id)

\* success: the row is created and its id read from results.
InsertOk(p) ==
    /\ db' = Inserted(db, NewRow(body[p].val))
    /\ results' = [results EXCEPT ![p] = Returning(NewRow(body[p].val))]
    /\ id' = [id EXCEPT ![p] = IdOf(Returning(NewRow(body[p].val)))]
    /\ pc' = [pc EXCEPT ![p] = "embed"]
    /\ Logged(p, Call("insert", pos[p], body[p].val,
                      IdOf(Returning(NewRow(body[p].val))), NoVector, "ok"))
    /\ UNCHANGED <<pos, body, values, queue>>

\* A handler without the `continue`: it goes on to embed after a failed insert.
InsertFailGoesOn(p) ==
    /\ Logged(p, Call("insert", pos[p], body[p].val, "", NoVector, "fail"))
    /\ pc' = [pc EXCEPT ![p] = "embed"]
    /\ UNCHANGED <<pos, body, results, id, values, queue, db>>

\* if (!success) { console.log(...); continue }
InsertFail(p) ==
    /\ Logged(p, Call("insert", pos[p], body[p].val, "", NoVector, "fail"))
    /\ Continue(p)
    /\ UNCHANGED db

\* run() throws.
InsertThrows(p) ==
    /\ Logged(p, Call("insert", pos[p], "", "", NoVector, "throw"))
    /\ Throw(p)
    /\ UNCHANGED db

\* await env.DB.prepare('INSERT ...').bind(body).run(), lines 115-124.
Insert(p, outcome) ==
    /\ Ready
    /\ pc[p] = "insert"
    /\ outcome \in InsertOutcomes(body[p])
    /\ CASE outcome = "ok" -> InsertOk(p)
         [] outcome = "fail" -> InsertFail(p)
         [] outcome = "throw" -> InsertThrows(p)
    /\ UNCHANGED <<nextMid, index, now, batch, rowsBefore, unindexed, deliveries, resp>>

\* The embedding model: one fixed-length vector per input text, same order.
Vec(t) ==
    CASE t = "" -> <<0, 0>> [] t = "a" -> <<1, 0>> [] t = "b" -> <<0, 1>>
      [] OTHER -> <<1, 1>>

Embedding(texts) == [i \in 1..Len(texts) |-> Vec(texts[i])]

\* A handler that embeds the id instead of the body.
EmbedInputId(p) == <<id[p]>>

\* { text: [body] }
EmbedInput(p) == <<body[p].val>>

\* The row the store created for an invocation's current message.
CurrentRow(p) == db[results[p][1].id]

\* const { data } = await ai.run(model, { text: [body] }); values = data[0]
Embed(p, ok) ==
    /\ Ready
    /\ pc[p] = "embed"
    /\ IF ok
       THEN /\ values' = [values EXCEPT ![p] = Embedding(EmbedInput(p))[1]]
            /\ pc' = [pc EXCEPT ![p] = "upsert"]
            /\ Logged(p, Call("embed", pos[p], body[p].val, "",
                              Embedding(EmbedInput(p))[1], "ok"))
            /\ UNCHANGED <<pos, body, results, id, queue, unindexed>>
       ELSE /\ Logged(p, Call("embed", pos[p], body[p].val, "", NoVector, "throw"))
            /\ unindexed' = unindexed \cup {CurrentRow(p)}
            /\ Throw(p)
    /\ UNCHANGED <<nextMid, stores, now, batch, rowsBefore, deliveries, resp>>

\* VECTORIZE_INDEX.upsert([{ id, values }]): insert or overwrite under id.
UpsertInto(ix, key, vec) ==
    [k \in DOMAIN ix \cup {key} |-> IF k = key THEN vec ELSE ix[k]]

\* await env.VECTORIZE_INDEX.upsert([{ id, values }]), then the next message.
Upsert(p, ok) ==
    /\ Ready
    /\ pc[p] = "upsert"
    /\ IF ok
       THEN /\ index' = UpsertInto(index, id[p], values[p])
            /\ Logged(p, Call("upsert", pos[p], "", id[p], values[p], "ok"))
            /\ Continue(p)
            /\ UNCHANGED unindexed
       ELSE /\ Logged(p, Call("upsert", pos[p], "", id[p], values[p], "throw"))
            /\ unindexed' = unindexed \cup {CurrentRow(p)}
            /\ Throw(p)
            /\ UNCHANGED index
    /\ UNCHANGED <<nextMid, db, now, batch, rowsBefore, deliveries, resp>>

\* ----------------------------------------------------------- store queries
\* const oneDayAgo = new Date(now.getTime() - (24 * 60 * 60 * 1000))
OneDayAgo == now - DayTicks

\* SELECT * FROM messages WHERE created_at > '${oneDayAgo.toISOString()}':
\* the column's text is compared with the ISO text.
TodayEmails(rows, oneDayAgo) ==
    SelectSeq(rows, LAMBDA r : TextLess(ISOString(oneDayAgo), r.created_at))

\* A summary query with the listing's filter.
RecentEmails(rows) == TodayEmails(rows, OneDayAgo)

\* SELECT * FROM messages
AllEmails(rows) == rows

\* -------------------------------------------------------- generateSummary
\* emails.map(email => email.message).join("\n")
RECURSIVE Join(_)
Join(texts) ==
    IF Len(texts) = 0 THEN ""
    ELSE IF Len(texts) = 1 THEN texts[1]
    ELSE texts[1] \o "\n" \o Join(Tail(texts))

Turn(role, content) == [role |-> role, content |-> content]

\* The turns generateSummary passes to the completion call, built from the
\* rows SELECT * FROM messages returns.
Messages(rows) ==
    << Turn("system", "You are an AI that summarizes emails."),
       Turn("system", "You will receive a list of emails - take the details of each email and summarize them."),
       Turn("system", "Don't repeat the prompt back to me, just return the summary."),
       Turn("system", "Here are the emails for today: "
                        \o Join([k \in 1..Len(rows) |-> rows[k].message])),
       Turn("user", "Summarize my emails from today.") >>

\* The texts the completion model may answer with.
Completions == {"summary one", "summary two"}

\* A generateSummary that returns at once when the store has no rows.
GenerateSummarySkipsEmpty(fail, c) ==
    CASE fail = "query" -> <<"threw", <<>>, <<>>>>
      [] Len(db) = 0 -> <<"ok", <<>>, <<"">>>>
      [] fail = "ai" -> <<"threw", <<Messages(db)>>, <<>>>>
      [] OTHER -> <<"ok", <<Messages(db)>>, <<c>>>>

\* The completion call's answer, when the call was reached and returned.
Answer(fail, c) == IF fail \in {"query", "ai"} THEN <<>> ELSE <<c>>

\* generateSummary(env): fail is the awaited call that throws, if any (the
\* store query, the completion call); nothing is caught.  The result is
\* <<outcome, turns passed to the model, value returned>>.
GenerateSummary(fail, c) ==
    CASE fail = "query" -> <<"threw", <<>>, <<>>>>
      [] fail = "ai" -> <<"threw", <<Messages(AllEmails(db))>>, <<>>>>
      [] OTHER -> <<"ok", <<Messages(AllEmails(db))>>, <<c>>>>

\* ------------------------------------------------------ scheduled handler
\* The JSON body scheduled POSTs to the mail API.
MailBody(summary) ==
    [from |-> [name |-> "Email Summarizer",
               email |-> "no-reply@email-summarizer.signalnerve.workers.dev"],
     subject |-> "Your email summary for today",
     content |-> <<[type |-> "text/plain", value |-> summary]>>]

\* scheduled(env, ctx): generateSummary, then the POST; nothing is caught.
Scheduled(fail, c) ==
    /\ Ready
    /\ LET s == GenerateSummary(fail, c)
       IN resp' = [handler |-> "scheduled",
                   result |-> IF fail = "none" THEN "ok" ELSE "threw",
                   failed |-> fail,
                   input |-> s[2],
                   completion |-> Answer(fail, c),
                   output |-> IF s[1] = "ok" THEN <<MailBody(s[3][1])>> ELSE <<>>]
    /\ UNCHANGED <<queue, nextMid, stores, now, local, unindexed, deliveries>>

\* ---------------------------------------------------------- fetch handler
Paths == {"/", "/summary"}

\* A listing whose query error is not caught.
ListingUncaught(fail, rows) ==
    IF fail = "query" THEN <<"threw", <<>>>> ELSE <<"ok", <<rows>>>>

\* try { query; return Response.json(results) }
\* catch (err) { return new Response(err.message) }:
\* <<how the handler ends, the response body>>
Listing(fail, rows) ==
    IF fail = "query" THEN <<"ok", <<"err.message">>>> ELSE <<"ok", <<rows>>>>

\* fetch(request, env, ctx).  On "/" the store query sits in a try/catch and
\* an error becomes a normal response carrying err.message; on any other
\* path generateSummary is awaited with nothing to catch what it throws.
Fetch(path, fail, c) ==
    /\ Ready
    /\ IF path = "/"
       THEN /\ fail \in {"none", "query"}
            /\ LET l == Listing(fail, TodayEmails(db, OneDayAgo))
               IN resp' = [handler |-> "fetch", result |-> l[1], failed |-> fail,
                           input |-> <<path>>,
                           completion |-> <<>>,
                           output |-> l[2]]
       ELSE /\ fail \in {"none", "query", "ai"}
            /\ LET s == GenerateSummary(fail, c)
               IN resp' = [handler |-> "fetch", result |-> s[1], failed |-> fail,
                           input |-> <<path>> \o s[2],
                           completion |-> Answer(fail, c),
                           output |-> IF s[1] = "ok" THEN <<[summary |-> s[3][1]]>> ELSE <<>>]
    /\ UNCHANGED <<queue, nextMid, stores, now, local, unindexed, deliveries>>

\* ------------------------------------------------------------ the system
\* The steps of the queue handler invocations P.
Consume(P) ==
    \/ \E p \in P : \E b \in Batches(queue) : Deliver(p, b)
    \/ \E p \in P : Parse(p)
    \/ \E p \in P : \E o \in {"ok", "fail", "throw"} : Insert(p, o)
    \/ \E p \in P : \E ok \in BOOLEAN : Embed(p, ok)
    \/ \E p \in P : \E ok \in BOOLEAN : Upsert(p, ok)

\* The ingestion pipeline: every kind of mail and of foreign message, and
\* one queue handler invocation at a time.
Next ==
    \/ \E t \in EmailTexts, h \in EmailHtmls, f \in {"none", "parse", "send"} : Email(t, h, f)
    \/ \E pl \in OtherPayloads : OtherSend(pl)
    \/ Respond
    \/ Consume({"q1"})

Spec == Init /\ [][Next]_vars

\* The whole Worker: all four handlers, interleaved with the steps of a
\* queue handler invocation, the clock standing still; every mail has both
\* bodies.
NextAll ==
    \/ \E f \in {"none", "parse", "send"} : Email(Str("a"), Str("b"), f)
    \/ Respond
    \/ Consume({"q1"})
    \/ \E f \in {"none", "query", "ai", "post"} : \E c \in Completions : Scheduled(f, c)
    \/ \E pa \in Paths : \E f \in {"none", "query", "ai"} : \E c \in Completions : Fetch(pa, f, c)

SpecAll == Init /\ [][NextAll]_vars

\* The steps of queue handler invocations P in which every call succeeds.
ConsumeOk(P) ==
    \/ \E p \in P : \E b \in Batches(queue) : Deliver(p, b)
    \/ \E p \in P : Parse(p)
    \/ \E p \in P : Insert(p, "ok")
    \/ \E p \in P : Embed(p, TRUE)
    \/ \E p \in P : Upsert(p, TRUE)

\* The reading handlers over a store filled as time passes: mails with a
\* text or an html body, a queue handler whose calls succeed, the clock, and
\* scheduled and fetch.
NextClock ==
    \/ Email(Str("a"), Undefined, "none")
    \/ Email(Undefined, Str("b"), "none")
    \/ Respond
    \/ Tick
    \/ ConsumeOk({"q1"})
    \/ \E f \in {"none", "query", "ai", "post"} : \E c \in Completions : Scheduled(f, c)
    \/ \E pa \in Paths : \E f \in {"none", "query", "ai"} : \E c \in Completions : Fetch(pa, f, c)

SpecClock == Init /\ [][NextClock]_vars

\* Queue handler invocations running concurrently over a queue of mails
\* with a text or an html body, every call succeeding.
NextConc ==
    \/ Email(Str("a"), Undefined, "none")
    \/ Email(Undefined, Str("b"), "none")
    \/ Respond
    \/ ConsumeOk(Consumers)

SpecConc == Init /\ [][NextConc]_vars

\* ------------------------------------------------ reading an invocation
Ended(p) == pc[p] \in {"returned", "threw"}

\* The calls an invocation made for the message at position i, and their
\* kinds and outcomes.
CallsAt(p, i) == SelectSeq(calls[p], LAMBDA c : c.pos = i)
Ops(p, i) == [k \in 1..Len(CallsAt(p, i)) |-> <<CallsAt(p, i)[k].op, CallsAt(p, i)[k].res>>]
HasCall(p, i, op, res) == \E k \in 1..Len(calls[p]) :
    calls[p][k].pos = i /\ calls[p][k].op = op /\ calls[p][k].res = res
Count(p, op) == Len(SelectSeq(calls[p], LAMBDA c : c.op = op))
CountOk(p, op) == Len(SelectSeq(calls[p], LAMBDA c : c.op = op /\ c.res = "ok"))

Skipped == << <<"parse", "skip">> >>
InsertFailed == << <<"parse", "ok">>, <<"insert", "fail">> >>
Succeeded == << <<"parse", "ok">>, <<"insert", "ok">>, <<"embed", "ok">>, <<"upsert", "ok">> >>

Started(p, i) == CallsAt(p, i) # <<>>
Completed(p, i) == Ops(p, i) \in {Skipped, InsertFailed, Succeeded}

\* The body and type fields of the message at position i of the batch.
BodyAt(p, i) == Get(JSONparse(batch[p][i].payload), "body")
TypeAt(p, i) == Get(JSONparse(batch[p][i].payload), "type")

\* ------------------------------------------------------------------ claims

\* C1: when a queue handler invocation has ended, every message of its batch
\* has gone through its per-message sequence, whatever step failed for the
\* messages before it.
C1_RestOfBatchProcessed ==
    \A p \in Consumers : Ended(p) => \A i \in DOMAIN batch[p] : Started(p, i)

\* C2: every id present in the Vector Index is the id of a row present in
\* the Message Store.
C2_IndexedIsStored ==
    \A key \in DOMAIN index : \E k \in 1..Len(db) : String(db[k].id) = key

C2_Witness ==
    /\ DOMAIN index # {}
    /\ unindexed # {}
    /\ pc["q1"] = "threw"
    /\ resp.handler = "scheduled"

\* C3: a message whose insert, embedding call and upsert all succeeded went
\* through parse, insert, embed, upsert in this order, once each; the insert
\* and the embedding call were given the message body; the upsert was given
\* the id read from the insert and the vector the embedding call returned;
\* exactly one row has that id, it was created by this invocation and holds
\* the body, and the index holds the body's vector under that id.
C3_InsertEmbedUpsert ==
    \A p \in Consumers : \A i \in DOMAIN batch[p] :
        HasCall(p, i, "upsert", "ok") =>
            LET cs == CallsAt(p, i)
                text == BodyAt(p, i).val
            IN /\ Ops(p, i) = Succeeded
               /\ IsString(BodyAt(p, i))
               /\ cs[2].text = text
               /\ cs[3].text = text
               /\ cs[3].vec = Vec(text)
               /\ cs[4].key = cs[2].key
               /\ cs[4].vec = cs[3].vec
               /\ Cardinality({k \in 1..Len(db) : String(db[k].id) = cs[4].key}) = 1
               /\ \A k \in 1..Len(db) : String(db[k].id) = cs[4].key =>
                      k > rowsBefore[p] /\ db[k].message = text
               /\ cs[4].key \in DOMAIN index
               /\ index[cs[4].key] = Vec(text)

C3_Witness ==
    /\ pc["q1"] = "returned"
    /\ Len(batch["q1"]) = 2
    /\ Ops("q1", 1) = Succeeded
    /\ Ops("q1", 2) = Succeeded
    /\ BodyAt("q1", 1) # BodyAt("q1", 2)

\* C4: when an invocation has ended, the messages of its batch that are
\* acknowledged are exactly those whose per-message sequence completed in
\* success or in an explicit skip.
C4_AckedIffCompleted ==
    \A p \in Consumers : Ended(p) =>
        \A i \in DOMAIN batch[p] : batch[p][i].mid \in Acked <=> Completed(p, i)

\* C5: a message whose insert reported failure is not acknowledged, so that
\* the queue delivers it again.
C5_FailedInsertNotAcked ==
    \A p \in Consumers : \A i \in DOMAIN batch[p] :
        HasCall(p, i, "insert", "fail") => batch[p][i].mid \notin Acked

\* C6: a row whose embedding call or upsert failed stays in the Message
\* Store as it was created, and the Vector Index has no entry under its id.
C6_StoredButUnindexed ==
    \A r \in unindexed :
        /\ r.id \in 1..Len(db)
        /\ db[r.id] = r
        /\ String(r.id) \notin DOMAIN index

C6_Witness ==
    /\ unindexed # {}
    /\ deliveries = 2
    /\ pc["q1"] = "returned"
    /\ DOMAIN index # {}

\* C7: a message whose insert reported failure gets no row, no embedding
\* call and no upsert call, and the loop moves on; an invocation that
\* returned completed every message; the rows an invocation created are as
\* many as its successful inserts, and, when no embedding or upsert call
\* threw, as many as its embedding calls and as its upsert calls.
C7_FailedInsertSkipped ==
    \A p \in Consumers :
        /\ \A i \in DOMAIN batch[p] :
               HasCall(p, i, "insert", "fail") =>
                   /\ Ops(p, i) = InsertFailed
                   /\ pos[p] > i \/ pc[p] = "returned"
        /\ pc[p] = "returned" => \A i \in DOMAIN batch[p] : Completed(p, i)
        /\ pc[p] # "idle" => Len(db) = rowsBefore[p] + CountOk(p, "insert")
        /\ (Ended(p) /\ Count(p, "embed") = CountOk(p, "embed")
                     /\ Count(p, "upsert") = CountOk(p, "upsert")) =>
               /\ Count(p, "embed") = CountOk(p, "insert")
               /\ Count(p, "upsert") = CountOk(p, "insert")

C7_Witness ==
    /\ pc["q1"] = "returned"
    /\ Len(batch["q1"]) = 2
    /\ Ops("q1", 1) = InsertFailed
    /\ Ops("q1", 2) = Succeeded
    /\ Len(db) = 1
    /\ Count("q1", "embed") = 1
    /\ Count("q1", "upsert") = 1

\* C8: a well-formed message whose type is not "email" is only logged: no
\* insert, no embedding call, no upsert, no exception, and the loop moves
\* on to the message after it, or returns when it was the last.
C8_UnknownTypeSkipped ==
    \A p \in Consumers : \A i \in DOMAIN batch[p] :
        (/\ ~JSONparseThrows(batch[p][i].payload)
         /\ TypeAt(p, i) # Str("email")
         /\ Started(p, i)) =>
            /\ Ops(p, i) = Skipped
            /\ i < Len(batch[p]) => pos[p] > i
            /\ i = Len(batch[p]) => pc[p] = "returned"

C8_Witness ==
    /\ pc["q1"] = "returned"
    /\ Len(batch["q1"]) = 2
    /\ Ops("q1", 1) = Skipped
    /\ Ops("q1", 2) = Succeeded

\* C9: no handler invocation ends in an uncaught error.
C9_NoHandlerThrows ==
    /\ resp.result # "threw"
    /\ \A p \in Consumers : pc[p] # "threw"

\* plainTextBody ?? htmlBody ?? ""
Coalesce(text, html) ==
    IF text # Undefined THEN text ELSE IF html # Undefined THEN html ELSE Str("")

\* C10: the message the email handler enqueued is {type: "email", body} with
\* body the plain-text body when there is one, otherwise the HTML body when
\* there is one, otherwise the empty string; body is a string.
C10_BodyIsTextElseHtmlElseEmpty ==
    (resp.handler = "email" /\ resp.result = "ok") =>
        LET sent == JSONparse(resp.output[1].payload)
        IN /\ Len(resp.output) = 1
           /\ resp.output[1] \in queue
           /\ Get(sent, "type") = Str("email")
           /\ IsString(Get(sent, "body"))
           /\ Get(sent, "body") = Coalesce(resp.input[1], resp.input[2])

\* C11: an email handler invocation whose push onto the queue failed ends
\* in failure, with nothing enqueued; one that ended normally has its
\* message on the queue.
C11_SendFailureObserved ==
    resp.handler = "email" =>
        /\ resp.failed = "send" => resp.result = "threw" /\ resp.output = <<>>
        /\ resp.result = "ok" => Len(resp.output) = 1 /\ resp.output[1] \in queue

C11_Witness == resp.handler = "email" /\ resp.failed = "send"

\* C12: an email handler invocation whose MIME parsing failed still ends
\* normally, having enqueued one message of type "email".
C12_ParseFailureStillEnqueues ==
    (resp.handler = "email" /\ resp.failed = "parse") =>
        /\ resp.result = "ok"
        /\ Len(resp.output) = 1
        /\ resp.output[1] \in queue
        /\ Get(JSONparse(resp.output[1].payload), "type") = Str("email")
        /\ IsString(Get(JSONparse(resp.output[1].payload), "body"))

\* ------------------------------------------------- reading a summary reply
\* The invocation held in resp is one of the two that call generateSummary.
SummaryPath ==
    \/ resp.handler = "scheduled"
    \/ resp.handler = "fetch" /\ resp.input[1] # "/"

ListingPath == resp.handler = "fetch" /\ resp.input[1] = "/"

\* The prompts it passed to the completion model, one per call.
SummaryTurns ==
    IF resp.handler = "fetch" THEN SubSeq(resp.input, 2, Len(resp.input)) ELSE resp.input

\* The summary text it handed on: in the mail body, or in the JSON reply.
SummaryText ==
    IF resp.handler = "scheduled" THEN resp.output[1].content[1].value
    ELSE resp.output[1].summary

Roles(turns) == [k \in 1..Len(turns) |-> turns[k].role]

\* The instant of a row lies in the 24 hours before the request.
WithinLastDay(r) ==
    InstantOf(r.created_at) > now - DayTicks /\ InstantOf(r.created_at) <= now

\* C13: on the scheduled path and on the on-demand summary path alike, once
\* the store query returned, one completion call is made whose five turns
\* carry the messages of all stored rows, whatever their created_at, joined
\* by newlines; what the call answers is handed on unchanged.
C13_SummaryOverAllRows ==
    (SummaryPath /\ resp.failed # "query") =>
        /\ Len(SummaryTurns) = 1
        /\ Roles(SummaryTurns[1]) = <<"system", "system", "system", "system", "user">>
        /\ SummaryTurns[1][4].content =
               "Here are the emails for today: "
                   \o Join([k \in 1..Len(db) |-> db[k].message])
        /\ resp.result = "ok" => SummaryText = resp.completion[1]

C13_Witness ==
    /\ resp.handler = "scheduled" /\ resp.result = "ok"
    /\ Len(db) = 2
    /\ ~WithinLastDay(db[1]) /\ WithinLastDay(db[2])

\* C14: the listing GET / answers with exactly the stored rows whose
\* created_at lies within the 24 hours before the request.
C14_ListingIsLastDay ==
    (ListingPath /\ resp.failed = "none") =>
        resp.output = <<SelectSeq(db, WithinLastDay)>>

\* C15: with no row in the store, generateSummary still makes exactly one
\* completion call, with the same fixed turns around an empty list of
\* emails, and hands on what the call answers.
C15_EmptyStoreStillCompletes ==
    (SummaryPath /\ Len(db) = 0 /\ resp.failed \notin {"query", "ai"}) =>
        /\ Len(SummaryTurns) = 1
        /\ SummaryTurns[1] =
             << Turn("system", "You are an AI that summarizes emails."),
                Turn("system", "You will receive a list of emails - take the details of each email and summarize them."),
                Turn("system", "Don't repeat the prompt back to me, just return the summary."),
                Turn("system", "Here are the emails for today: "),
                Turn("user", "Summarize my emails from today.") >>
        /\ Len(resp.completion) = 1
        /\ SummaryText = resp.completion[1]

C15_Witness ==
    /\ resp.handler = "fetch" /\ resp.input[1] # "/"
    /\ resp.result = "ok" /\ Len(db) = 0

\* C16: a GET / whose store query fails ends normally, its response body
\* being the error's message, and writes nothing to the store, the index
\* or the queue.
C16_ListingErrorIsResponse ==
    [][(resp.handler = "none" /\ resp'.handler = "fetch"
            /\ resp'.input[1] = "/" /\ resp'.failed = "query") =>
          /\ resp'.result = "ok"
          /\ resp'.output = <<"err.message">>
          /\ db' = db /\ index' = index /\ queue' = queue]_vars

C16_Witness == ListingPath /\ resp.failed = "query" /\ Len(db) > 0

\* ------------------------------------------------ the store and the index
\* The step is a handler invocation of email, scheduled or fetch.
HandlerStep == resp.handler = "none" /\ resp'.handler \in {"email", "scheduled", "fetch"}

\* The step is invocation p's insert that created a row, or its upsert that
\* ended the processing of a message.
InsertedBy(p) == pc[p] = "insert" /\ pc'[p] = "embed"
UpsertedBy(p) == pc[p] = "upsert" /\ pc'[p] \in {"parse", "returned"}

\* C17: no step removes a stored row or changes its id or text; a step that
\* changes the store is an insert of the queue handler; a step of email,
\* scheduled or fetch (generateSummary within them) leaves the store and
\* the index as they were.
C17_StoreAppendOnly ==
    [][/\ Len(db') >= Len(db)
       /\ \A k \in 1..Len(db) : db'[k].id = db[k].id /\ db'[k].message = db[k].message
       /\ db' # db => \E p \in Consumers : InsertedBy(p)
       /\ HandlerStep => db' = db /\ index' = index]_vars

C17_Witness ==
    /\ resp.handler \in {"scheduled", "fetch"}
    /\ Len(db) = 2 /\ db[1].message # db[2].message
    /\ DOMAIN index # {}

\* C18: every successful insert of the queue handler, of a message delivered
\* for the first time or again, adds one row with the message's text under
\* an id no row had, and every successful upsert adds one index entry under
\* that row's id, which no entry had: k successful deliveries of a message
\* leave k rows and k entries.
C18_RedeliveryDuplicates ==
    [][\A p \in Consumers :
         /\ InsertedBy(p) =>
               /\ Len(db') = Len(db) + 1
               /\ db'[Len(db')].message = body[p].val
               /\ \A k \in 1..Len(db) : db[k].id # db'[Len(db')].id
               /\ id'[p] = String(db'[Len(db')].id)
         /\ UpsertedBy(p) =>
               /\ id[p] \notin DOMAIN index
               /\ DOMAIN index' = DOMAIN index \cup {id[p]}
               /\ \A key \in DOMAIN index : index'[key] = index[key]]_vars

\* One mail was sent, then a text that is not JSON; both deliveries of the
\* two processed the mail and threw on the other: two rows, two entries.
C18_Witness ==
    /\ nextMid = 3
    /\ \E m \in queue : m.mid = 1 /\ ~JSONparseThrows(m.payload)
                          /\ Get(JSONparse(m.payload), "type") = Str("email")
    /\ \E m \in queue : m.mid = 2 /\ JSONparseThrows(m.payload)
    /\ deliveries = 2
    /\ Len(db) = 2 /\ db[1].message = db[2].message /\ db[1].id # db[2].id
    /\ DOMAIN index = {String(db[1].id), String(db[2].id)}

\* C19: whatever the interleaving of the running invocations, every index
\* entry is the embedding of the text of the row whose id is its key; the
\* invocations that hold an id hold different ones, and none of them holds
\* the key of an entry that is already there, so no upsert overwrites.
C19_IndexEntryIsRowEmbedding ==
    /\ \A key \in DOMAIN index :
          \E k \in 1..Len(db) : key = String(db[k].id) /\ index[key] = Vec(db[k].message)
    /\ \A p, q \in Consumers :
          (p # q /\ pc[p] \in {"embed", "upsert"} /\ pc[q] \in {"embed", "upsert"})
              => id[p] # id[q]
    /\ \A p \in Consumers : pc[p] \in {"embed", "upsert"} => id[p] \notin DOMAIN index

\* Two invocations are at the upsert of the same delivered message, next to
\* an entry of another text.
C19_Witness ==
    /\ pc["q1"] = "upsert" /\ pc["q2"] = "upsert"
    /\ batch["q1"][pos["q1"]] = batch["q2"][pos["q2"]]
    /\ \E key \in DOMAIN index : index[key] # values["q1"]

====
